---- MODULE Spec2Model ----
(***************************************************************************)
(* A model of sqjdb: a table of JSON documents on SQLite.                  *)
(*                                                                         *)
(* The record type is the tests' Jedi{ID string; Name string; Age int},    *)
(* which carries no json tags.  The table is the sequence of its stored    *)
(* documents in rowid order.  Every operation of Table[T] is one action;   *)
(* the variables op, doc, sqls, prev, ret, err and caller record the last  *)
(* call, its arguments, the table before it and what it returned.          *)
(*                                                                         *)
(* The engine's part of each statement (prepare, bind, step) is modelled   *)
(* at the call site: a statement on a missing table or with unparsable     *)
(* text fails in Prepare; binding an index beyond the last placeholder is  *)
(* remembered by the statement and fails the next Step; a placeholder that *)
(* was never bound is NULL; a statement that violates the unique index is  *)
(* rolled back as a whole.                                                 *)
(***************************************************************************)
EXTENDS Integers, Sequences, FiniteSets, TLC

VARIABLES rows, migrated, ulidCount, op, doc, sqls, prev, ret, err, caller

vars == <<rows, migrated, ulidCount, op, doc, sqls, prev, ret, err, caller>>

(* Bounds of the model. *)
MaxRows == 2
MaxUlid == 1

(* ---------------------------------------------------------------------- *)
(* The record type and the values of the inputs                           *)
(* ---------------------------------------------------------------------- *)

Fields == {"ID", "Name", "Age"}

Jedi(id, name, age) == [ID |-> id, Name |-> name, Age |-> age]

ZeroJedi == Jedi("", "", 0)

CallerIDs == {"a"}
InsertNames == {"luke"}
UpdateNames == {"darth"}
Ages == {0, 42}

(* ulid.Make().String(): the n-th identifier the process generates.  The  *)
(* generator is monotonic, so no two calls return the same string.        *)
UlidString(n) == "u" \o ToString(n)

(* Go values passed as statement arguments ([]any). *)
GoString(s) == [t |-> "string", s |-> s, n |-> 0]
GoInt(i) == [t |-> "int", s |-> "", n |-> i]
GoBytes == [t |-> "bytes", s |-> "", n |-> 0]
GoStruct == [t |-> "struct", s |-> "", n |-> 0]
GoNil == [t |-> "nil", s |-> "", n |-> 0]

(* Error kinds; ErrNoRows is the package's sentinel. *)
ErrNil == "nil"
ErrNoRows == "sqjson: no rows in result set"
ErrPrepare == "prepare"
ErrBind == "unexpected value"
ErrStep == "step"

(* Bind: the closed set of kinds with a binding rule; any other kind is   *)
(* the default branch and an error.                                       *)
BindKinds == {"int", "int16", "int32", "int64", "bool", "bytes",
              "float32", "float64", "nil", "string"}

Bind(v) == IF v.t \in BindKinds THEN ErrNil ELSE ErrBind

(* The SQL type: query text and its arguments. *)
SQL(q, args) == [Query |-> q, Args |-> args]

QByID == "where data->>'ID' = ?"
QByAge == "where data->>'Age' = ?"
QAndAge == "and data->>'Age' = ?"
QPatch == "set data = jsonb_patch(data, ?)"
QReplace == "set data = jsonb(?)"

ByID(id) == SQL(QByID, <<GoString(id)>>)

byAge(age) == SQL(QByAge, <<GoInt(age)>>)

(* How the engine reads a clause: its leading keyword and the field it    *)
(* projects.  Every clause here has exactly one placeholder.              *)
Lead(q) ==
  IF q \in {QPatch, QReplace} THEN "set"
  ELSE IF q = QAndAge THEN "and" ELSE "where"

Field(q) == IF q = QByID THEN "ID" ELSE "Age"

(* ---------------------------------------------------------------------- *)
(* The codec: encoding/json on Jedi, and the engine's JSON functions      *)
(* ---------------------------------------------------------------------- *)

(* json.Marshal: Jedi has no omitempty tags, so every field is written,   *)
(* zero-valued or not.                                                    *)
Marshal(r) == [k \in Fields |-> r[k]]
(* Variant: the decoder does not fill Age. *)
UnmarshalSkipsAge(d) ==
  [ID   |-> IF "ID" \in DOMAIN d THEN d["ID"] ELSE "",
   Name |-> IF "Name" \in DOMAIN d THEN d["Name"] ELSE "",
   Age  |-> 0]

(* json.Unmarshal into new(T): a key the document lacks leaves the zero   *)
(* value.                                                                 *)
Unmarshal(d) ==
  [ID   |-> IF "ID" \in DOMAIN d THEN d["ID"] ELSE "",
   Name |-> IF "Name" \in DOMAIN d THEN d["Name"] ELSE "",
   Age  |-> IF "Age" \in DOMAIN d THEN d["Age"] ELSE 0]

(* jsonb_patch(data, ?): RFC 7396 merge of two objects of scalars: every  *)
(* key of the patch overwrites, every other key of the target stays.      *)
JsonPatch(target, patch) ==
  [k \in (DOMAIN target) \cup (DOMAIN patch) |->
     IF k \in DOMAIN patch THEN patch[k] ELSE target[k]]

(* data->>'F': the SQL value of a field, NULL when the key is absent. *)
Project(d, f) ==
  IF f \notin DOMAIN d THEN GoNil
  ELSE IF f = "Age" THEN GoInt(d[f]) ELSE GoString(d[f])

(* SQL '=': NULL equals nothing; values of different storage classes      *)
(* differ.                                                                *)
SqlEq(a, b) == a.t # "nil" /\ b.t # "nil" /\ a = b

(* The unique index <table>_ID on (data->>'ID'): no two rows share a      *)
(* non-NULL projected ID.                                                 *)
UniqueIndexOK(tbl) ==
  \A i, j \in 1..Len(tbl) :
    i # j => ~SqlEq(Project(tbl[i], "ID"), Project(tbl[j], "ID"))

(* ---------------------------------------------------------------------- *)
(* Statements: composing the text, binding, stepping                      *)
(* ---------------------------------------------------------------------- *)

(* addSQLQuery: the clause texts appended, in order, after the statement  *)
(* head.                                                                  *)
addSQLQuery(s) == [i \in 1..Len(s) |-> s[i].Query]

(* The arguments of all parts, left to right: the order in which          *)
(* bindSQLQuery walks them, the k-th of them bound at index k.            *)
RECURSIVE ArgsOf(_)
ArgsOf(s) == IF s = <<>> THEN <<>> ELSE s[1].Args \o ArgsOf(Tail(s))

(* bindSQLQuery: the first argument without a binding rule ends the loop  *)
(* with Bind's error.                                                     *)
bindSQLQuery(s) ==
  IF \E i \in 1..Len(ArgsOf(s)) : Bind(ArgsOf(s)[i]) # ErrNil
  THEN ErrBind ELSE ErrNil

(* The number of placeholders of the composed text: one per clause. *)
NumPlaceholders(s) == Len(s)

(* conn.Prepare of "select json(data) from T ..." and "delete from T ...":*)
(* the text parses when the clauses form one where-condition.             *)
WhereGrammar(q) ==
  q = <<>> \/ (Lead(q[1]) = "where" /\ \A i \in 2..Len(q) : Lead(q[i]) = "and")

(* conn.Prepare of "update T ...": a set clause, then a where-condition. *)
UpdateGrammar(q) == q # <<>> /\ Lead(q[1]) = "set" /\ WhereGrammar(Tail(q))

(* The statement's parameters when it is stepped: the k-th argument at    *)
(* placeholder k, NULL at every placeholder no argument reached.          *)
Params(s) ==
  [k \in 1..NumPlaceholders(s) |->
     IF k <= Len(ArgsOf(s)) THEN ArgsOf(s)[k] ELSE GoNil]

(* Prepare, bindSQLQuery and the bind error Step reports: the error that  *)
(* ends the call before the statement runs, or nil.                       *)
StmtErr(exists, parses, s) ==
  IF ~exists \/ ~parses THEN ErrPrepare
  ELSE IF bindSQLQuery(s) # ErrNil THEN ErrBind
  ELSE IF Len(ArgsOf(s)) > NumPlaceholders(s) THEN ErrStep
  ELSE ErrNil

(* The where-condition on one stored document: every condition clause     *)
(* holds of it with the statement's parameters.                           *)
Matches(d, s) ==
  \A k \in 1..Len(s) :
    Lead(s[k].Query) \in {"where", "and"} =>
      SqlEq(Project(d, Field(s[k].Query)), Params(s)[k])

MatchingRows(tbl, s) == {i \in 1..Len(tbl) : Matches(tbl[i], s)}

(* ---------------------------------------------------------------------- *)
(* The operations as functions of the table                               *)
(* ---------------------------------------------------------------------- *)

(* Insert, lines 86-90: the document that is marshalled and returned. *)
InsertDoc(d, id) == IF d.ID = "" THEN [d EXCEPT !.ID = id] ELSE d
(* Variant: the generated ID is set through the caller's pointer. *)
CallerAfterInsertInPlace(d, id) == IF d.ID = "" THEN [d EXCEPT !.ID = id] ELSE d

(* Insert, lines 87-88: the value behind the caller's pointer after the   *)
(* call; the generated ID is set on a copy.                               *)
CallerAfterInsert(d, id) == d

(* stepOne: no row gives nil, a row gives the decoded document. *)
stepOne(rowReturned, d) == IF rowReturned THEN <<Unmarshal(d)>> ELSE <<>>
(* Variant: One passes stepOne's nil on without the sentinel. *)
OneResultNoSentinel(v) == [ret |-> v, err |-> ErrNil]

(* One, lines 155-162: nil from stepOne becomes ErrNoRows. *)
OneResult(v) ==
  IF v = <<>> THEN [ret |-> <<>>, err |-> ErrNoRows]
  ELSE [ret |-> v, err |-> ErrNil]

(* One: every result the call can have on table tbl.  "limit 1" without   *)
(* an order leaves the engine free to return any matching row.            *)
OneResults(exists, tbl, s) ==
  IF StmtErr(exists, WhereGrammar(addSQLQuery(s)), s) # ErrNil
  THEN {[ret |-> <<>>, err |-> StmtErr(exists, WhereGrammar(addSQLQuery(s)), s)]}
  ELSE IF MatchingRows(tbl, s) = {}
       THEN {OneResult(stepOne(FALSE, Marshal(ZeroJedi)))}
       ELSE {OneResult(stepOne(TRUE, tbl[i])) : i \in MatchingRows(tbl, s)}
(* Variant: All stops after the first row. *)
AllRowsFirstOnly(tbl, s) ==
  LET m == SelectSeq(tbl, LAMBDA d : Matches(d, s))
  IN  [i \in 1..(IF Len(m) > 0 THEN 1 ELSE 0) |-> stepOne(TRUE, m[i])[1]]

(* All, lines 177-188: stepOne until it returns nil. *)
AllRows(tbl, s) ==
  LET m == SelectSeq(tbl, LAMBDA d : Matches(d, s))
  IN  [i \in 1..Len(m) |-> stepOne(TRUE, m[i])[1]]

AllResult(exists, tbl, s) ==
  IF StmtErr(exists, WhereGrammar(addSQLQuery(s)), s) # ErrNil
  THEN [ret |-> <<>>, err |-> StmtErr(exists, WhereGrammar(addSQLQuery(s)), s)]
  ELSE [ret |-> AllRows(tbl, s), err |-> ErrNil]
(* Variant: the where-condition is dropped from the delete. *)
DeleteRowsAll(tbl, s) == <<>>

(* "delete from T <where>": the rows that stay. *)
DeleteRows(tbl, s) == SelectSeq(tbl, LAMBDA d : ~Matches(d, s))

(* "set data = jsonb_patch(data, ?)" and "set data = jsonb(?)": the new   *)
(* document of a matching row.                                            *)
SetData(partQ, data, jsonS) ==
  IF partQ = QPatch THEN JsonPatch(data, jsonS) ELSE jsonS

(* patchOrReplace, line 217: the set clause and its argument lead. *)
UpdateSQL(partQ, s) == <<SQL(partQ, <<GoBytes>>)>> \o s
(* Variant: the where-condition is dropped from the update. *)
UpdateRowsAll(partQ, tbl, jsonS, s) ==
  [i \in 1..Len(tbl) |-> SetData(partQ, tbl[i], jsonS)]

(* "update T set data = ... <where>": the table after the statement. *)
UpdateRows(partQ, tbl, jsonS, s) ==
  [i \in 1..Len(tbl) |->
     IF Matches(tbl[i], UpdateSQL(partQ, s))
     THEN SetData(partQ, tbl[i], jsonS) ELSE tbl[i]]

(* ---------------------------------------------------------------------- *)
(* The inputs of the calls                                                *)
(* ---------------------------------------------------------------------- *)

GeneratedIDs == {UlidString(i) : i \in 1..ulidCount}

InsertDocs ==
  {Jedi(i, n, a) : i \in {""} \cup CallerIDs \cup GeneratedIDs,
                   n \in InsertNames, a \in Ages}

UpdateDocs == {Jedi(i, n, a) : i \in {""} \cup CallerIDs, n \in UpdateNames, a \in Ages}

(* Fragment lists whose arguments are one per placeholder, clause by      *)
(* clause.                                                                *)
PlainSQLs ==
  {<<>>}
    \cup {<<ByID(i)>> : i \in {""} \cup CallerIDs \cup GeneratedIDs}
    \cup {<<byAge(a)>> : a \in Ages}
    \cup {<<ByID(i), SQL(QAndAge, <<GoInt(42)>>)>> : i \in CallerIDs}

(* Fragment lists that break a rule of composition: too few arguments,    *)
(* too many, the right number but attached to the wrong clause, two where *)
(* clauses, an argument with no binding rule.                             *)
OddSQLs ==
  { <<SQL(QByID, <<>>)>>,
    <<SQL(QByAge, <<GoInt(42), GoInt(42)>>)>>,
    <<SQL(QByID, <<GoString("a"), GoInt(42)>>), SQL(QAndAge, <<>>)>>,
    <<ByID("a"), byAge(42)>>,
    <<SQL(QByAge, <<GoStruct>>)>> }

SQLInputs == PlainSQLs \cup OddSQLs

(* ---------------------------------------------------------------------- *)
(* The state machine                                                      *)
(* ---------------------------------------------------------------------- *)

(* No call is in progress and the last result has been consumed. *)
Idle == "idle"

Init ==
  /\ rows = <<>>
  /\ migrated = FALSE
  /\ ulidCount = 0
  /\ op = Idle
  /\ doc = ZeroJedi
  /\ sqls = <<>>
  /\ prev = <<>>
  /\ ret = <<>>
  /\ err = ErrNil
  /\ caller = ZeroJedi

(* Migrate: create table if not exists, create unique index if not        *)
(* exists.                                                                *)
Migrate ==
  /\ op = Idle
  /\ migrated' = TRUE
  /\ op' = "Migrate"
  /\ doc' = ZeroJedi
  /\ sqls' = <<>>
  /\ prev' = rows
  /\ ret' = <<>>
  /\ err' = ErrNil
  /\ caller' = ZeroJedi
  /\ UNCHANGED <<rows, ulidCount>>
(* Variant: the table has no unique index. *)
InsertErrNoIndex(exists, new) == IF ~exists THEN ErrPrepare ELSE ErrNil

(* Insert: a zero ID is replaced on a copy by a new ULID; the document is *)
(* marshalled and inserted; the unique index rejects a second row with    *)
(* the same ID.                                                           *)
InsertErr(exists, new) ==
  IF ~exists THEN ErrPrepare
  ELSE IF ~UniqueIndexOK(new) THEN ErrStep
  ELSE ErrNil

Insert ==
  \E d \in InsertDocs :
    LET id  == UlidString(ulidCount + 1)
        nd  == InsertDoc(d, id)
        new == Append(rows, Marshal(nd))
        e   == InsertErr(migrated, new)
    IN  /\ op = Idle
        /\ Len(rows) < MaxRows
        /\ d.ID = "" => ulidCount < MaxUlid
        /\ ulidCount' = IF d.ID = "" THEN ulidCount + 1 ELSE ulidCount
        /\ rows' = IF e = ErrNil THEN new ELSE rows
        /\ ret' = IF e = ErrNil THEN <<nd>> ELSE <<>>
        /\ err' = e
        /\ op' = "Insert"
        /\ doc' = d
        /\ caller' = CallerAfterInsert(d, id)
        /\ sqls' = <<>>
        /\ prev' = rows
        /\ UNCHANGED migrated

One ==
  \E s \in SQLInputs :
    \E r \in OneResults(migrated, rows, s) :
      /\ op = Idle
      /\ ret' = r.ret
      /\ err' = r.err
      /\ op' = "One"
      /\ doc' = ZeroJedi
      /\ caller' = ZeroJedi
      /\ sqls' = s
      /\ prev' = rows
      /\ UNCHANGED <<rows, migrated, ulidCount>>

All ==
  \E s \in SQLInputs :
    /\ op = Idle
    /\ ret' = AllResult(migrated, rows, s).ret
    /\ err' = AllResult(migrated, rows, s).err
    /\ op' = "All"
    /\ doc' = ZeroJedi
    /\ caller' = ZeroJedi
    /\ sqls' = s
    /\ prev' = rows
    /\ UNCHANGED <<rows, migrated, ulidCount>>

Delete ==
  \E s \in SQLInputs :
    LET e == StmtErr(migrated, WhereGrammar(addSQLQuery(s)), s)
    IN  /\ op = Idle
        /\ rows' = IF e = ErrNil THEN DeleteRows(rows, s) ELSE rows
        /\ err' = e
        /\ ret' = <<>>
        /\ op' = "Delete"
        /\ doc' = ZeroJedi
        /\ caller' = ZeroJedi
        /\ sqls' = s
        /\ prev' = rows
        /\ UNCHANGED <<migrated, ulidCount>>

(* patchOrReplace: marshal the document, put the set clause and the       *)
(* document first, prepare, bind, step.  A step that would break the      *)
(* unique index fails and changes no row.                                 *)
UpdateErr(exists, partQ, tbl, jsonS, s) ==
  IF StmtErr(exists, UpdateGrammar(addSQLQuery(UpdateSQL(partQ, s))),
             UpdateSQL(partQ, s)) # ErrNil
  THEN StmtErr(exists, UpdateGrammar(addSQLQuery(UpdateSQL(partQ, s))),
               UpdateSQL(partQ, s))
  ELSE IF ~UniqueIndexOK(UpdateRows(partQ, tbl, jsonS, s)) THEN ErrStep
  ELSE ErrNil

patchOrReplace(partQ, name) ==
  \E d \in UpdateDocs, s \in SQLInputs :
    LET e == UpdateErr(migrated, partQ, rows, Marshal(d), s)
    IN  /\ op = Idle
        /\ rows' = IF e = ErrNil THEN UpdateRows(partQ, rows, Marshal(d), s)
                   ELSE rows
        /\ err' = e
        /\ ret' = <<>>
        /\ op' = name
        /\ doc' = d
        /\ caller' = d
        /\ sqls' = s
        /\ prev' = rows
        /\ UNCHANGED <<migrated, ulidCount>>

Patch == patchOrReplace(QPatch, "Patch")

Replace == patchOrReplace(QReplace, "Replace")

(* The caller has looked at what the call returned and is ready for its   *)
(* next call.                                                             *)
Return ==
  /\ op # Idle
  /\ op' = Idle
  /\ doc' = ZeroJedi
  /\ sqls' = <<>>
  /\ prev' = <<>>
  /\ ret' = <<>>
  /\ err' = ErrNil
  /\ caller' = ZeroJedi
  /\ UNCHANGED <<rows, migrated, ulidCount>>

Next ==
  Migrate \/ Insert \/ One \/ All \/ Delete \/ Patch \/ Replace \/ Return

Spec == Init /\ [][Next]_vars


(* ---------------------------------------------------------------------- *)
(* Properties                                                             *)
(* ---------------------------------------------------------------------- *)

(* The stored documents decoded, in table order. *)
Decoded(tbl) == [i \in 1..Len(tbl) |-> Unmarshal(tbl[i])]

(* The predicate a plain fragment list states about a record: each clause *)
(* compares its field with its own single argument.                       *)
Satisfies(r, s) ==
  \A k \in 1..Len(s) :
    /\ Len(s[k].Args) = 1
    /\ IF Field(s[k].Query) = "ID"
       THEN s[k].Args[1] = GoString(r.ID)
       ELSE s[k].Args[1] = GoInt(r.Age)

Satisfying(tbl, s) == {i \in 1..Len(tbl) : Satisfies(Unmarshal(tbl[i]), s)}

(* The composed statement of the last call, the number of its arguments   *)
(* and whether its text parses.                                           *)
LastSQL ==
  IF op = "Patch" THEN UpdateSQL(QPatch, sqls)
  ELSE IF op = "Replace" THEN UpdateSQL(QReplace, sqls)
  ELSE sqls

LastParses ==
  IF op \in {"Patch", "Replace"} THEN UpdateGrammar(addSQLQuery(LastSQL))
  ELSE WhereGrammar(addSQLQuery(LastSQL))

(* C1: Insert of a record with an empty ID on a migrated table returns a  *)
(* record with a non-empty ID that equals the input in every other field, *)
(* appends exactly that record as one new row, and leaves the caller's    *)
(* value as it was, its ID still empty.                                   *)
C1_InsertGeneratesID ==
  (op = "Insert" /\ migrated /\ doc.ID = "") =>
    /\ err = ErrNil
    /\ Len(ret) = 1
    /\ ret[1].ID # ""
    /\ [ret[1] EXCEPT !.ID = ""] = doc
    /\ Len(rows) = Len(prev) + 1
    /\ SubSeq(rows, 1, Len(prev)) = prev
    /\ Unmarshal(rows[Len(rows)]) = ret[1]
    /\ caller = doc
    /\ caller.ID = ""

C1_Witness ==
  /\ op = "Insert" /\ migrated /\ doc.ID = "" /\ err = ErrNil
  /\ Len(prev) >= 1 /\ doc.Age = 42

(* C2: after a successful Insert, One by the ID of the returned record    *)
(* returns a record equal in every field to the returned one, and a       *)
(* non-empty ID supplied by the caller is the ID that was stored.         *)
C2_RoundTrip ==
  (op = "Insert" /\ err = ErrNil) =>
    /\ Len(ret) = 1
    /\ OneResults(migrated, rows, <<ByID(ret[1].ID)>>)
         = {[ret |-> ret, err |-> ErrNil]}
    /\ doc.ID # "" =>
         /\ ret[1] = doc
         /\ \E i \in 1..Len(rows) : Unmarshal(rows[i]) = doc

C2_Witness ==
  /\ op = "Insert" /\ err = ErrNil /\ doc.ID # "" /\ doc.Age = 42
  /\ Len(rows) = 2

(* C3: on a migrated table every stored row has a non-empty ID and no two *)
(* rows have the same ID.                                                 *)
C3_IDsNonEmptyUnique ==
  migrated =>
    /\ \A i \in 1..Len(rows) : Unmarshal(rows[i]).ID # ""
    /\ \A i, j \in 1..Len(rows) :
         i # j => Unmarshal(rows[i]).ID # Unmarshal(rows[j]).ID

(* C4: a Patch that returned no error changed, in each row matching its   *)
(* fragments, only the fields set (non-zero) in the partial record, and   *)
(* changed no other row.                                                  *)
C4_PatchOnlySetFields ==
  (op = "Patch" /\ err = ErrNil /\ sqls \in PlainSQLs) =>
    /\ Len(rows) = Len(prev)
    /\ \A i \in 1..Len(prev) :
         IF i \in Satisfying(prev, sqls)
         THEN /\ Unmarshal(rows[i]).ID =
                   (IF doc.ID # "" THEN doc.ID ELSE Unmarshal(prev[i]).ID)
              /\ Unmarshal(rows[i]).Name =
                   (IF doc.Name # "" THEN doc.Name ELSE Unmarshal(prev[i]).Name)
              /\ Unmarshal(rows[i]).Age =
                   (IF doc.Age # 0 THEN doc.Age ELSE Unmarshal(prev[i]).Age)
         ELSE rows[i] = prev[i]

(* C5 as stated: Replace with fragments that compose to a valid statement *)
(* on a migrated table leaves every matching row equal to the supplied    *)
(* record and every other row unchanged.                                  *)
C5_ReplaceOverwritesAll ==
  (op = "Replace" /\ migrated /\ sqls \in PlainSQLs) =>
    /\ Len(rows) = Len(prev)
    /\ \A i \in 1..Len(prev) :
         IF i \in Satisfying(prev, sqls)
         THEN Unmarshal(rows[i]) = doc
         ELSE rows[i] = prev[i]

(* C5 amended: a Replace that returns no error leaves every matching row  *)
(* equal to the supplied record and every other row unchanged; a Replace  *)
(* whose overwrite would give two rows the same ID, as whenever two or    *)
(* more rows match, returns an error and leaves the table unchanged.      *)
C5_ReplaceOverwritesOrFails ==
  (op = "Replace" /\ migrated /\ sqls \in PlainSQLs) =>
    LET m == Satisfying(prev, sqls)
        clash == \/ Cardinality(m) >= 2
                 \/ /\ m # {}
                    /\ \E j \in (1..Len(prev)) \ m : Unmarshal(prev[j]).ID = doc.ID
    IN  /\ err = (IF clash THEN ErrStep ELSE ErrNil)
        /\ err # ErrNil => rows = prev
        /\ err = ErrNil =>
             /\ Len(rows) = Len(prev)
             /\ \A i \in 1..Len(prev) :
                  IF i \in m THEN Unmarshal(rows[i]) = doc
                  ELSE rows[i] = prev[i]

C5_Witness ==
  /\ op = "Replace" /\ migrated /\ err = ErrNil
  /\ sqls = <<ByID("a")>> /\ doc = Jedi("a", "darth", 0)
  /\ Len(prev) = 2
  /\ \E i \in 1..Len(prev) :
       /\ Unmarshal(prev[i]) = Jedi("a", "luke", 42)
       /\ Unmarshal(rows[i]) = Jedi("a", "darth", 0)

(* C6: One with a predicate that no stored row satisfies returns no       *)
(* record and ErrNoRows; with a predicate some row satisfies it returns   *)
(* one stored record satisfying it and no error.  The table is unchanged. *)
C6_OneNoRows ==
  (op = "One" /\ migrated /\ sqls \in PlainSQLs) =>
    /\ rows = prev
    /\ IF Satisfying(prev, sqls) = {}
       THEN ret = <<>> /\ err = ErrNoRows
       ELSE /\ err = ErrNil
            /\ Len(ret) = 1
            /\ Satisfies(ret[1], sqls)
            /\ \E i \in 1..Len(prev) : ret[1] = Unmarshal(prev[i])

C6_Witness ==
  /\ op = "One" /\ migrated /\ sqls = <<ByID("a")>>
  /\ Len(prev) >= 1 /\ ret = <<>> /\ err = ErrNoRows

(* C7: All returns, without error, exactly the stored records that        *)
(* satisfy the predicate, as many as there are matching rows and none if  *)
(* there is none, and leaves the table unchanged.                         *)
C7_AllExactlyMatching ==
  (op = "All" /\ migrated /\ sqls \in PlainSQLs) =>
    /\ err = ErrNil
    /\ rows = prev
    /\ Len(ret) = Cardinality(Satisfying(prev, sqls))
    /\ \A j \in 1..Len(ret) :
         /\ Satisfies(ret[j], sqls)
         /\ \E i \in 1..Len(prev) : ret[j] = Unmarshal(prev[i])
    /\ \A i \in Satisfying(prev, sqls) :
         \E j \in 1..Len(ret) : ret[j] = Unmarshal(prev[i])

C7_Witness ==
  /\ op = "All" /\ migrated /\ sqls = <<byAge(42)>>
  /\ Len(prev) = 2 /\ Len(ret) = 2 /\ ret[1] # ret[2]

(* C8: Delete removes exactly the rows satisfying its predicate and is no *)
(* error when there is none; after it One by the same fragments reports   *)
(* ErrNoRows, All by them returns nothing, and every other row is still   *)
(* there, unchanged and in place.                                         *)
C8_DeleteExactlyMatching ==
  (op = "Delete" /\ migrated /\ sqls \in PlainSQLs) =>
    /\ err = ErrNil
    /\ rows = SelectSeq(prev, LAMBDA d : ~Satisfies(Unmarshal(d), sqls))
    /\ OneResults(migrated, rows, sqls) = {[ret |-> <<>>, err |-> ErrNoRows]}
    /\ AllResult(migrated, rows, sqls) = [ret |-> <<>>, err |-> ErrNil]

C8_Witness ==
  /\ op = "Delete" /\ migrated /\ sqls = <<ByID("a")>> /\ err = ErrNil
  /\ Len(prev) = 2 /\ Len(rows) = 1 /\ Unmarshal(rows[1]).ID # "a"

(* C9: Insert of a record whose non-empty ID is the ID of a stored row    *)
(* fails on the unique index, returns no record and leaves the table as   *)
(* it was.                                                                *)
C9_DuplicateIDRejected ==
  (/\ op = "Insert" /\ migrated /\ doc.ID # ""
   /\ \E i \in 1..Len(prev) : Unmarshal(prev[i]).ID = doc.ID) =>
    /\ err = ErrStep
    /\ ret = <<>>
    /\ rows = prev

C9_Witness ==
  /\ op = "Insert" /\ migrated /\ doc = Jedi("a", "luke", 0)
  /\ Len(prev) = 1 /\ Unmarshal(prev[1]) = Jedi("a", "luke", 42)
  /\ err = ErrStep

(* C10: One, All, Delete, Patch or Replace with a number of arguments     *)
(* (the document included) other than the number of placeholders of the   *)
(* composed text returns an error and changes no row.                     *)
C10_ArgCountMismatchFails ==
  (/\ op \in {"One", "All", "Delete", "Patch", "Replace"}
   /\ migrated
   /\ LastParses
   /\ Len(ArgsOf(LastSQL)) # NumPlaceholders(LastSQL)) =>
    /\ err # ErrNil
    /\ rows = prev

====
